---- MODULE Spec2Model ----
(***************************************************************************)
(* Model of the tool-calling orchestration of the support chatbot:         *)
(*   src/mcp_client.py  MCPClient (request ids, lazy initialize handshake) *)
(*   src/app.py         call_mcp_tool, get_system_prompt,                  *)
(*                      chat_with_openrouter, the Streamlit handlers       *)
(* Strings are sequences of tokens, so that substring tests, prefixes and  *)
(* concatenations are computed and not assumed.                            *)
(***************************************************************************)
EXTENDS Integers, Sequences, FiniteSets, TLC

(* ------------------------------ bounds --------------------------------- *)
\* user turns of one session (Spec)
MaxTurns == 1
\* tool executions the model provider asks for in one session (Spec)
MaxToolCalls == 2
\* requests one client sends (ClientSpec)
MaxRequests == 4
\* user turns of one session (RetrySpec)
RetryTurns == 1
\* user turns of one session (SessionSpec)
SessionTurns == 2
\* tool executions the provider asks for in one session (SessionSpec)
SessionToolCalls == 2
\* user turns of one session (FairSpec)
FairTurns == 1
\* user turns of one session (VerifySpec)
VerifyTurns == 1
\* tool executions the provider asks for in one session (VerifySpec)
VerifyToolCalls == 6
\* requests sent or under way when a caller enters the client (ConcSpec)
ConcRequests == 3

(* ------------------------- program constants --------------------------- *)
max_retries == 3
max_iterations == 5
history_window == 6
preview_len == 100
retry_sleep == 2

(* ------------------------------ strings -------------------------------- *)
None == <<"None">>
Marker == <<"Customer", "ID:">>

Min(a, b) == IF a < b THEN a ELSE b

\* Python's  sub in s  on token strings
Contains(s, sub) ==
  \E i \in 0..(Len(s) - Len(sub)) :
     \A k \in 1..Len(sub) : s[i + k] = sub[k]

Last(s) == s[Len(s)]

\* texts a tool server puts in content[0].text
TextVerified == <<"verified:", "Ann", "Customer", "ID:", "42">>
TextDenied == <<"Customer", "not", "found.", "ID:", "unknown">>
ServerTexts == {TextVerified, TextDenied}
\* message of an RPC error object
RpcMessages == {<<"Invalid", "params">>}
\* text of an exception raised by run_async itself
AsyncErrorText == <<"TimeoutError">>

TransportFailures == {"ConnectError", "TimeoutException", "HTTPStatusError"}

ApiKeyMessage == <<"Please configure your OpenRouter API key">>
Apology == <<"I apologize, but I couldn't generate a response.">>
ErrorMessage(e) ==
  <<"Error", "An error occurred:", e, "Please check your API key and try again.">>

(* --------------------------- MCPClient --------------------------------- *)
\* A client value is [request_id, initialized, sent]; sent is the log of the
\* requests put on the wire, in order, each with the transport's answer.

MCPClient == [request_id |-> 0, initialized |-> FALSE, sent |-> <<>>]

\* _next_id: increments the counter and returns it
_next_id(c) == c.request_id + 1

\* variant: the counter is advanced only once the post has succeeded
_send_request_late(c, method, name, arguments, status) ==
  LET id == c.request_id + 1 IN
  [c EXCEPT !.request_id = IF status = "ok" THEN id ELSE @,
            !.sent = Append(@, [method |-> method, name |-> name,
                                arguments |-> arguments,
                                id |-> id, status |-> status])]

\* _send_request: the id is taken while the payload is built, before the post;
\* name and arguments are the params of a tools/call ("-" for the others)
_send_request(c, method, name, arguments, status) ==
  LET id == _next_id(c) IN
  [c EXCEPT !.request_id = id,
            !.sent = Append(@, [method |-> method, name |-> name,
                                arguments |-> arguments,
                                id |-> id, status |-> status])]

\* variant: the handshake is sent but _initialized is never set
initialize_forgets(c, status) ==
  [c EXCEPT !.request_id = @ + 1,
            !.sent = Append(@, [method |-> "initialize", name |-> "-",
                                arguments |-> "-",
                                id |-> c.request_id + 1, status |-> status])]

\* initialize: _initialized is set only when _send_request returned
initialize(c, status) ==
  LET c1 == _send_request(c, "initialize", "-", "-", status) IN
  IF status = "ok" THEN [c1 EXCEPT !.initialized = TRUE] ELSE c1

\* variant: a failure of the handshake is swallowed
EnsureInitialized_swallow(c, init_status) ==
  IF ~c.initialized
    THEN [client |-> [c EXCEPT
                        !.request_id = @ + 1,
                        !.initialized = (init_status = "ok"),
                        !.sent = Append(@, [method |-> "initialize",
                                            name |-> "-",
                                            arguments |-> "-",
                                            id |-> c.request_id + 1,
                                            status |-> init_status])],
          raised |-> ""]
    ELSE [client |-> c, raised |-> ""]

\* the handshake that list_tools and call_tool run first:
\* [client, raised], raised = "" when no exception left initialize
EnsureInitialized(c, init_status) ==
  IF ~c.initialized
    THEN [client |-> initialize(c, init_status),
          raised |-> IF init_status = "ok" THEN "" ELSE init_status]
    ELSE [client |-> c, raised |-> ""]

\* call_tool(tool_name, arguments) with the transport's answers:
\* env = [init, call, body]; body is the JSON-RPC response of tools/call
call_tool(c, tool_name, arguments, env) ==
  LET h == EnsureInitialized(c, env.init) IN
  IF h.raised # ""
    THEN [client |-> h.client, raised |-> h.raised, value |-> [kind |-> "none"]]
    ELSE
      LET c2 == _send_request(h.client, "tools/call", tool_name, arguments,
                              env.call) IN
      IF env.call # "ok"
        THEN [client |-> c2, raised |-> env.call, value |-> [kind |-> "none"]]
        ELSE IF env.body.kind = "error"
          THEN [client |-> c2, raised |-> "",
                value |-> [kind |-> "error", text |-> env.body.message]]
          ELSE IF env.body.content # <<>>
            THEN [client |-> c2, raised |-> "",
                  value |-> [kind |-> "result", text |-> env.body.content[1]]]
            ELSE [client |-> c2, raised |-> "",
                  value |-> [kind |-> "result", text |-> <<"No content returned">>]]

\* list_tools with the transport's answers env = [init, call]
list_tools(c, env) ==
  LET h == EnsureInitialized(c, env.init) IN
  IF h.raised # ""
    THEN [client |-> h.client, raised |-> h.raised]
    ELSE [client |-> _send_request(h.client, "tools/list", "-", "-", env.call),
          raised |-> IF env.call = "ok" THEN "" ELSE env.call]

(* ----------------------- Tool Invocation Bridge ------------------------- *)
\* call_mcp_tool: every outcome of client.call_tool becomes a string
call_mcp_tool(c, tool_name, arguments, env) ==
  LET r == call_tool(c, tool_name, arguments, env) IN
  [client |-> r.client,
   call   |-> [raised |-> r.raised, kind |-> r.value.kind],
   text   |->
     IF r.raised = "ConnectError"
       THEN <<"Connection error: Could not connect to MCP server.">>
     ELSE IF r.raised = "TimeoutException"
       THEN <<"Timeout error: MCP server took too long to respond.">>
     ELSE IF r.raised # ""
       THEN <<"Error calling tool", tool_name, ":", r.raised>>
     ELSE IF r.value.kind = "error"
       THEN <<"Error:">> \o r.value.text
     ELSE r.value.text]

\* variant: no try/except around run_async
RunTool_uncaught(c, tool_name, arguments, env) ==
  LET b == call_mcp_tool(c, tool_name, arguments, env) IN
  [client |-> b.client, call |-> b.call,
   raised |-> IF env.async = "raise" THEN "TimeoutError" ELSE "",
   text |-> b.text]

\* result = run_async(call_mcp_tool(..)) inside try/except Exception:
\* an exception of run_async itself becomes "Error: <text>".
\* raised = "" in every case: nothing leaves this block.
RunTool(c, tool_name, arguments, env) ==
  LET b == call_mcp_tool(c, tool_name, arguments, env) IN
  IF env.async = "raise"
    THEN [client |-> b.client, call |-> b.call, raised |-> "",
          text |-> <<"Error:">> \o AsyncErrorText]
    ELSE [client |-> b.client, call |-> b.call, raised |-> "", text |-> b.text]

\* variant: arguments that cannot be parsed are passed on as they came
ParseArguments_raw(a) ==
  IF a = "{\"q\": 1}" THEN "q=1" ELSE a

\* json.loads(tool_call.function.arguments), {} when it cannot be parsed
ParseArguments(a) ==
  IF a = "{\"q\": 1}" THEN "q=1" ELSE "{}"

\* variant: the marker alone decides, whatever the tool
IsVerification_any_tool(tool_name, text) == Contains(text, Marker)

\* the verification detection rule
IsVerification(tool_name, text) ==
  tool_name = "verify_customer_pin" /\ Contains(text, Marker)

(* ------------------------- prompt and output --------------------------- *)
Truthy(info) == info # None /\ info # <<>>

\* variant: the verified-customer block is left out
get_system_prompt_no_context(verified, info) ==
  <<"You are a helpful and friendly customer support agent">>
  \o <<"When you need to perform actions, use the available tools">>

\* get_system_prompt: the block is there when the flag is set and the record
\* is a non-empty string
get_system_prompt(verified, info) ==
  <<"You are a helpful and friendly customer support agent">>
  \o (IF verified /\ Truthy(info)
        THEN <<"VERIFIED CUSTOMER CONTEXT:">> \o info
             \o <<"The customer has been verified and can place orders.">>
        ELSE <<>>)
  \o <<"When you need to perform actions, use the available tools">>

Msg(role, content, tool_calls, tool_call_id) ==
  [role |-> role, content |-> content, tool_calls |-> tool_calls,
   tool_call_id |-> tool_call_id]

Turn(role, content) == [role |-> role, content |-> content]

\* st.session_state.messages[-6:]
LastTurns(h) == SubSeq(h, Len(h) - Min(Len(h), history_window) + 1, Len(h))

\* lines 317-325: system prompt, last 6 turns, the new user message
BuildMessages(h, verified, info, user_message) ==
  <<Msg("system", get_system_prompt(verified, info), <<>>, <<>>)>>
  \o [i \in 1..Len(LastTurns(h)) |->
        Msg(LastTurns(h)[i].role, LastTurns(h)[i].content, <<>>, <<>>)]
  \o <<Msg("user", user_message, <<>>, <<>>)>>

Preview(text) ==
  SubSeq(text, 1, Min(Len(text), preview_len))
  \o (IF Len(text) > preview_len THEN <<"...">> ELSE <<>>)

RECURSIVE ToolLines(_)
ToolLines(trs) ==
  IF trs = <<>> THEN <<>>
  ELSE <<"-", trs[1].tool, "->">> \o Preview(trs[1].result) \o ToolLines(Tail(trs))

\* variant: the appendix shows the tool that ran last
FinalResponse_last_tool_only(content, trs) ==
  (IF content # <<>> THEN content ELSE Apology)
  \o (IF trs # <<>>
        THEN <<"Tools used:">> \o ToolLines(<<trs[Len(trs)]>>)
        ELSE <<>>)

\* variant: the appendix header is added whether or not a tool ran
FinalResponse_always_appendix(content, trs) ==
  (IF content # <<>> THEN content ELSE Apology)
  \o <<"Tools used:">> \o ToolLines(trs)

\* lines 420-431
FinalResponse(content, trs) ==
  (IF content # <<>> THEN content ELSE Apology)
  \o (IF trs # <<>> THEN <<"Tools used:">> \o ToolLines(trs) ELSE <<>>)

(* ------------------------------ state ---------------------------------- *)
VARIABLES
  history,            \* st.session_state.messages
  customer_verified,  \* st.session_state.customer_verified
  customer_info,      \* st.session_state.customer_info
  api_key,            \* what get_api_key() returns: "" (none), "sk-key" (from
                      \* secrets or environment), "sk-user" (typed in)
  mcp_client,         \* st.session_state.mcp_client
  last_call,          \* how the last client.call_tool / list_tools ended
  pc,                 \* where chat_with_openrouter stands
  messages,           \* its message list
  all_tool_results,
  attempt,
  iteration,
  assistant_message,
  idx,                \* position of the for loop over tool_calls
  provider_calls,     \* chat.completions.create calls of this turn
  rounds,             \* executions of the while body in this turn
  waits,              \* the time.sleep arguments of this turn
  fail_log,           \* the exceptions caught at line 433 in this turn
  result,             \* what the last turn returned
  turns,              \* turns submitted in this session
  executed,           \* tool calls requested by the provider in this session
  callers             \* threads inside a call of the shared MCPClient

vars == <<history, customer_verified, customer_info, api_key, mcp_client,
          last_call, pc, messages, all_tool_results, attempt, iteration,
          assistant_message, idx, provider_calls, rounds, waits, fail_log,
          result, turns, executed, callers>>

NoMessage == [content |-> <<>>, tool_calls |-> <<>>]
NoCall == [op |-> "-", raised |-> "", kind |-> "none", run_async |-> "ok"]

\* the threads that may run a coroutine of the one MCPClient (run_async)
Callers == {"t1", "t2"}
\* a thread outside the client
IdleCaller == [pc |-> "idle", op |-> "-", method |-> "-", name |-> "-",
               tmp |-> 0, id |-> 0]

Init ==
  /\ callers = [t \in Callers |-> IdleCaller]
  /\ history = <<>>
  /\ customer_verified = FALSE
  /\ customer_info = None
  /\ api_key \in {"", "sk-key"}
  /\ mcp_client = MCPClient
  /\ last_call = NoCall
  /\ pc = "idle"
  /\ messages = <<>>
  /\ all_tool_results = <<>>
  /\ attempt = 0
  /\ iteration = 0
  /\ assistant_message = NoMessage
  /\ idx = 0
  /\ provider_calls = 0
  /\ rounds = 0
  /\ waits = <<>>
  /\ fail_log = <<>>
  /\ result = <<>>
  /\ turns = 0
  /\ executed = 0

(* --------------------- chat_with_openrouter ---------------------------- *)
\* return <text> from chat_with_openrouter, and the handler's append of the
\* response to st.session_state.messages (lines 627, 643)
Return(h, text) ==
  /\ result' = text
  /\ history' = Append(h, Turn("assistant", text))
  /\ pc' = "idle"

\* variant: the exception of the last attempt is raised again
ExceptionHandler_reraise(e) ==
  /\ fail_log' = Append(fail_log, e)
  /\ IF attempt < max_retries - 1
       THEN /\ waits' = Append(waits, retry_sleep)
            /\ attempt' = attempt + 1
            /\ pc' = "create"
            /\ UNCHANGED <<result, history>>
       ELSE /\ pc' = "raised"
            /\ UNCHANGED <<result, history, waits, attempt>>

\* lines 433-439: any exception of the try block
ExceptionHandler(e) ==
  /\ fail_log' = Append(fail_log, e)
  /\ IF attempt < max_retries - 1
       THEN /\ waits' = Append(waits, retry_sleep)
            /\ attempt' = attempt + 1
            /\ pc' = "create"
            /\ UNCHANGED <<result, history>>
       ELSE /\ Return(history, ErrorMessage(e))
            /\ UNCHANGED <<waits, attempt>>

\* variant: the while condition lets one more round through
AfterResponse_one_more_round(am, it) ==
  /\ assistant_message' = am
  /\ iteration' = it
  /\ IF am.tool_calls # <<>> /\ it <= max_iterations
       THEN /\ messages' = Append(messages,
                             Msg("assistant", am.content, am.tool_calls, <<>>))
            /\ rounds' = rounds + 1
            /\ idx' = 1
            /\ pc' = "tools"
            /\ UNCHANGED <<result, history>>
       ELSE /\ Return(history, FinalResponse(am.content, all_tool_results))
            /\ idx' = 0
            /\ UNCHANGED <<messages, rounds>>

\* variant: the round starts at the last requested call
AfterResponse_last_call_only(am, it) ==
  /\ assistant_message' = am
  /\ iteration' = it
  /\ IF am.tool_calls # <<>> /\ it < max_iterations
       THEN /\ messages' = Append(messages,
                             Msg("assistant", am.content, am.tool_calls, <<>>))
            /\ rounds' = rounds + 1
            /\ idx' = Len(am.tool_calls)
            /\ pc' = "tools"
            /\ UNCHANGED <<result, history>>
       ELSE /\ Return(history, FinalResponse(am.content, all_tool_results))
            /\ idx' = 0
            /\ UNCHANGED <<messages, rounds>>

\* lines 345-351 and 417-431: the response is taken, the while condition is
\* tested, and either the round starts (lines 355-369) or the turn returns
AfterResponse(am, it) ==
  /\ assistant_message' = am
  /\ iteration' = it
  /\ IF am.tool_calls # <<>> /\ it < max_iterations
       THEN /\ messages' = Append(messages,
                             Msg("assistant", am.content, am.tool_calls, <<>>))
            /\ rounds' = rounds + 1
            /\ idx' = 1
            /\ pc' = "tools"
            /\ UNCHANGED <<result, history>>
       ELSE /\ Return(history, FinalResponse(am.content, all_tool_results))
            /\ idx' = 0
            /\ UNCHANGED <<messages, rounds>>

\* the provider's answer as the orchestrator sees it: call ids are the
\* provider's, here the number of the call and the position in the response
Response(o) ==
  [content |-> o.content,
   tool_calls |-> [i \in 1..Len(o.tool_calls) |->
                     [id |-> <<provider_calls + 1, i>>,
                      name |-> o.tool_calls[i].name,
                      arguments |-> o.tool_calls[i].arguments]]]

\* variant: the turn goes on without looking at the key
SubmitTurn_no_key_check(user_input) ==
  /\ pc = "idle"
  /\ turns' = turns + 1
  /\ provider_calls' = 0
  /\ rounds' = 0
  /\ waits' = <<>>
  /\ fail_log' = <<>>
  /\ LET h == Append(history, Turn("user", user_input)) IN
     /\ history' = h
     /\ messages' = BuildMessages(h, customer_verified, customer_info,
                                  user_input)
     /\ all_tool_results' = <<>>
     /\ attempt' = 0
     /\ pc' = "create"
     /\ UNCHANGED result
  /\ UNCHANGED <<customer_verified, customer_info, api_key, mcp_client,
                 last_call, iteration, assistant_message, idx, executed>>
  /\ UNCHANGED callers

\* chat input (lines 631-643) and quick action (lines 618-628) handlers up to
\* the first provider call: lines 306-328
SubmitTurn(user_input) ==
  /\ pc = "idle"
  /\ turns' = turns + 1
  /\ provider_calls' = 0
  /\ rounds' = 0
  /\ waits' = <<>>
  /\ fail_log' = <<>>
  /\ LET h == Append(history, Turn("user", user_input)) IN
     IF api_key = ""
       THEN /\ Return(h, ApiKeyMessage)
            /\ UNCHANGED <<messages, all_tool_results, attempt>>
       ELSE /\ history' = h
            /\ messages' = BuildMessages(h, customer_verified, customer_info,
                                         user_input)
            /\ all_tool_results' = <<>>
            /\ attempt' = 0
            /\ pc' = "create"
            /\ UNCHANGED result
  /\ UNCHANGED <<customer_verified, customer_info, api_key, mcp_client,
                 last_call, iteration, assistant_message, idx, executed>>
  /\ UNCHANGED callers

\* line 334: the first provider call of an attempt
Create(o) ==
  /\ pc = "create"
  /\ provider_calls' = provider_calls + 1
  /\ IF o.kind = "raise"
       THEN /\ ExceptionHandler(o.class)
            /\ UNCHANGED <<messages, rounds, assistant_message, iteration, idx,
                           executed>>
       ELSE /\ AfterResponse(Response(o), 0)
            /\ executed' = executed + Len(o.tool_calls)
            /\ UNCHANGED <<waits, fail_log, attempt>>
  /\ UNCHANGED <<customer_verified, customer_info, api_key, mcp_client,
                 last_call, all_tool_results, turns>>
  /\ UNCHANGED callers

\* variant: create_order is refused while the session is not verified
ExecuteToolCall_gated(env) ==
  /\ pc = "tools"
  /\ LET tool_call == assistant_message.tool_calls[idx]
         tool_name == tool_call.name
         arguments == ParseArguments(tool_call.arguments)
         r == IF tool_name = "create_order" /\ ~customer_verified
                THEN [client |-> mcp_client,
                      call |-> [raised |-> "", kind |-> "none"],
                      raised |-> "",
                      text |-> <<"Please verify your identity first.">>]
                ELSE RunTool(mcp_client, tool_name, arguments, env)
     IN
     /\ mcp_client' = r.client
     /\ last_call' = [op |-> "call_tool", raised |-> r.call.raised,
                      kind |-> r.call.kind, run_async |-> env.async]
     /\ IF r.raised # ""
          THEN /\ ExceptionHandler(r.raised)
               /\ UNCHANGED <<all_tool_results, customer_verified,
                              customer_info, messages, idx>>
          ELSE /\ all_tool_results' = Append(all_tool_results,
                     [tool |-> tool_name, arguments |-> arguments,
                      result |-> r.text])
               /\ IF IsVerification(tool_name, r.text)
                    THEN /\ customer_verified' = TRUE
                         /\ customer_info' = r.text
                    ELSE UNCHANGED <<customer_verified, customer_info>>
               /\ messages' = Append(messages,
                                Msg("tool", r.text, <<>>, tool_call.id))
               /\ IF idx < Len(assistant_message.tool_calls)
                    THEN idx' = idx + 1 /\ pc' = "tools"
                    ELSE idx' = 0 /\ pc' = "next"
               /\ UNCHANGED <<waits, fail_log, attempt, result, history>>
  /\ UNCHANGED <<api_key, iteration, assistant_message, provider_calls,
                 rounds, turns, executed>>
  /\ UNCHANGED callers

\* variant: every call is handed to the bridge a second time
ExecuteToolCall_twice(env) ==
  /\ pc = "tools"
  /\ LET tool_call == assistant_message.tool_calls[idx]
         tool_name == tool_call.name
         arguments == ParseArguments(tool_call.arguments)
         r == RunTool(mcp_client, tool_name, arguments, env)
     IN
     /\ mcp_client' = r.client
     /\ last_call' = [op |-> "call_tool", raised |-> r.call.raised,
                      kind |-> r.call.kind, run_async |-> env.async]
     /\ IF r.raised # ""
          THEN /\ ExceptionHandler(r.raised)
               /\ UNCHANGED <<all_tool_results, customer_verified,
                              customer_info, messages, idx>>
          ELSE /\ all_tool_results' = all_tool_results \o
                     <<[tool |-> tool_name, arguments |-> arguments,
                        result |-> r.text],
                       [tool |-> tool_name, arguments |-> arguments,
                        result |-> r.text]>>
               /\ IF IsVerification(tool_name, r.text)
                    THEN /\ customer_verified' = TRUE
                         /\ customer_info' = r.text
                    ELSE UNCHANGED <<customer_verified, customer_info>>
               /\ messages' = messages \o
                                <<Msg("tool", r.text, <<>>, tool_call.id),
                                  Msg("tool", r.text, <<>>, tool_call.id)>>
               /\ IF idx < Len(assistant_message.tool_calls)
                    THEN idx' = idx + 1 /\ pc' = "tools"
                    ELSE idx' = 0 /\ pc' = "next"
               /\ UNCHANGED <<waits, fail_log, attempt, result, history>>
  /\ UNCHANGED <<api_key, iteration, assistant_message, provider_calls,
                 rounds, turns, executed>>
  /\ UNCHANGED callers

\* variant: the system prompt is rebuilt after every tool result
ExecuteToolCall_refreshes_prompt(env) ==
  /\ pc = "tools"
  /\ LET tool_call == assistant_message.tool_calls[idx]
         tool_name == tool_call.name
         arguments == ParseArguments(tool_call.arguments)
         r == RunTool(mcp_client, tool_name, arguments, env)
     IN
     /\ mcp_client' = r.client
     /\ last_call' = [op |-> "call_tool", raised |-> r.call.raised,
                      kind |-> r.call.kind, run_async |-> env.async]
     /\ IF r.raised # ""
          THEN /\ ExceptionHandler(r.raised)
               /\ UNCHANGED <<all_tool_results, customer_verified,
                              customer_info, messages, idx>>
          ELSE /\ all_tool_results' = Append(all_tool_results,
                     [tool |-> tool_name, arguments |-> arguments,
                      result |-> r.text])
               /\ IF IsVerification(tool_name, r.text)
                    THEN /\ customer_verified' = TRUE
                         /\ customer_info' = r.text
                    ELSE UNCHANGED <<customer_verified, customer_info>>
               /\ messages' =
                    [Append(messages, Msg("tool", r.text, <<>>, tool_call.id))
                       EXCEPT ![1].content =
                         get_system_prompt(customer_verified', customer_info')]
               /\ IF idx < Len(assistant_message.tool_calls)
                    THEN idx' = idx + 1 /\ pc' = "tools"
                    ELSE idx' = 0 /\ pc' = "next"
               /\ UNCHANGED <<waits, fail_log, attempt, result, history>>
  /\ UNCHANGED <<api_key, iteration, assistant_message, provider_calls,
                 rounds, turns, executed>>
  /\ UNCHANGED callers

\* lines 372-404: one pass of the for loop over assistant_message.tool_calls
ExecuteToolCall(env) ==
  /\ pc = "tools"
  /\ LET tool_call == assistant_message.tool_calls[idx]
         tool_name == tool_call.name
         arguments == ParseArguments(tool_call.arguments)
         r == RunTool(mcp_client, tool_name, arguments, env)
     IN
     /\ mcp_client' = r.client
     /\ last_call' = [op |-> "call_tool", raised |-> r.call.raised,
                      kind |-> r.call.kind, run_async |-> env.async]
     /\ IF r.raised # ""
          THEN /\ ExceptionHandler(r.raised)
               /\ UNCHANGED <<all_tool_results, customer_verified,
                              customer_info, messages, idx>>
          ELSE /\ all_tool_results' = Append(all_tool_results,
                     [tool |-> tool_name, arguments |-> arguments,
                      result |-> r.text])
               /\ IF IsVerification(tool_name, r.text)
                    THEN /\ customer_verified' = TRUE
                         /\ customer_info' = r.text
                    ELSE UNCHANGED <<customer_verified, customer_info>>
               /\ messages' = Append(messages,
                                Msg("tool", r.text, <<>>, tool_call.id))
               /\ IF idx < Len(assistant_message.tool_calls)
                    THEN idx' = idx + 1 /\ pc' = "tools"
                    ELSE idx' = 0 /\ pc' = "next"
               /\ UNCHANGED <<waits, fail_log, attempt, result, history>>
  /\ UNCHANGED <<api_key, iteration, assistant_message, provider_calls,
                 rounds, turns, executed>>
  /\ UNCHANGED callers

\* variant: a failure of the re-dispatch drops the verification
GetNextResponse_forgets(o) ==
  /\ pc = "next"
  /\ provider_calls' = provider_calls + 1
  /\ IF o.kind = "raise"
       THEN /\ ExceptionHandler(o.class)
            /\ customer_verified' = FALSE
            /\ customer_info' = None
            /\ UNCHANGED <<messages, rounds, assistant_message, iteration, idx,
                           executed>>
       ELSE /\ AfterResponse(Response(o), iteration + 1)
            /\ executed' = executed + Len(o.tool_calls)
            /\ UNCHANGED <<waits, fail_log, attempt, customer_verified,
                           customer_info>>
  /\ UNCHANGED <<api_key, mcp_client, last_call, all_tool_results, turns>>
  /\ UNCHANGED callers

\* lines 407-418: the provider call that ends a round
GetNextResponse(o) ==
  /\ pc = "next"
  /\ provider_calls' = provider_calls + 1
  /\ IF o.kind = "raise"
       THEN /\ ExceptionHandler(o.class)
            /\ UNCHANGED <<messages, rounds, assistant_message, iteration, idx,
                           executed>>
       ELSE /\ AfterResponse(Response(o), iteration + 1)
            /\ executed' = executed + Len(o.tool_calls)
            /\ UNCHANGED <<waits, fail_log, attempt>>
  /\ UNCHANGED <<customer_verified, customer_info, api_key, mcp_client,
                 last_call, all_tool_results, turns>>
  /\ UNCHANGED callers

(* ---------------------- presentation layer ----------------------------- *)
\* variant: the button leaves the customer record in place
ClearChat_keeps_record ==
  /\ pc = "idle"
  /\ history' = <<>>
  /\ customer_verified' = FALSE
  /\ UNCHANGED <<customer_info, api_key, mcp_client, last_call, pc, messages,
                 all_tool_results, attempt, iteration, assistant_message, idx,
                 provider_calls, rounds, waits, fail_log, result, turns,
                 executed>>
  /\ UNCHANGED callers

\* variant: the button clears the transcript only
ClearChat_transcript_only ==
  /\ pc = "idle"
  /\ history' = <<>>
  /\ UNCHANGED <<customer_verified, customer_info, api_key, mcp_client,
                 last_call, pc, messages, all_tool_results, attempt, iteration,
                 assistant_message, idx, provider_calls, rounds, waits,
                 fail_log, result, turns, executed>>
  /\ UNCHANGED callers

\* lines 508-512: the Clear Chat button
ClearChat ==
  /\ pc = "idle"
  /\ history' = <<>>
  /\ customer_verified' = FALSE
  /\ customer_info' = None
  /\ UNCHANGED <<api_key, mcp_client, last_call, pc, messages,
                 all_tool_results, attempt, iteration, assistant_message, idx,
                 provider_calls, rounds, waits, fail_log, result, turns,
                 executed>>
  /\ UNCHANGED callers

\* lines 523-531: the user enters a key in the sidebar
EnterApiKey ==
  /\ pc = "idle"
  /\ api_key = ""
  /\ api_key' = "sk-user"
  /\ UNCHANGED <<history, customer_verified, customer_info, mcp_client,
                 last_call, pc, messages, all_tool_results, attempt, iteration,
                 assistant_message, idx, provider_calls, rounds, waits,
                 fail_log, result, turns, executed>>
  /\ UNCHANGED callers

\* get_api_key lines 212-217: secrets are read anew on every call, so a key
\* that came from the secrets file is gone once the file no longer holds it
SecretRemoved ==
  /\ pc = "idle"
  /\ api_key = "sk-key"
  /\ api_key' = ""
  /\ UNCHANGED <<history, customer_verified, customer_info, mcp_client,
                 last_call, pc, messages, all_tool_results, attempt, iteration,
                 assistant_message, idx, provider_calls, rounds, waits,
                 fail_log, result, turns, executed>>
  /\ UNCHANGED callers

(* --------------------------- environment ------------------------------- *)
\* what the transport and the server answer to one tool call: the status of
\* the initialize post (read only when the client is not yet initialized), the
\* status of the tools/call post, the JSON-RPC response body, and whether
\* run_async itself raises
ErrorBody(m) == [kind |-> "error", message |-> m, content |-> <<>>]
ContentBody(c) == [kind |-> "content", message |-> <<>>, content |-> c]
ToolEnv(i, c, b, a) == [init |-> i, call |-> c, body |-> b, async |-> a]

Bodies ==
  {ErrorBody(m) : m \in RpcMessages}
  \cup {ContentBody(<<>>)}
  \cup {ContentBody(<<t>>) : t \in ServerTexts}

HandshakeFailures == {"ConnectError", "HTTPStatusError"}

ToolEnvs ==
  {ToolEnv(f, "ok", ContentBody(<<>>), "ok") : f \in HandshakeFailures}
  \cup {ToolEnv("ok", f, ContentBody(<<>>), "ok") : f \in TransportFailures}
  \cup {ToolEnv("ok", "ok", b, "ok") : b \in Bodies}
  \cup {ToolEnv("ok", "ok", ContentBody(<<TextDenied>>), "raise")}

\* a failed handshake can only be met by a client that still has to shake hands
Offered(env) == env.init = "ok" \/ ~mcp_client.initialized

\* what the provider answers to one chat.completions.create
Raise(c) == [kind |-> "raise", class |-> c, content |-> <<>>, tool_calls |-> <<>>]
Message(content, calls) ==
  [kind |-> "message", class |-> "", content |-> content, tool_calls |-> calls]
ToolCall(n) == [name |-> n, arguments |-> "{\"q\": 1}"]
CallLists(names, maxc) ==
  UNION {[1..n -> {ToolCall(m) : m \in names}] : n \in 0..maxc}

UserTexts == {<<"Show me monitors">>}
ModelText == <<"Here", "you", "are">>

\* Spec: every tool outcome, two tools, a provider that always answers
ToolNames == {"verify_customer_pin", "create_order"}
ProviderOutcomes ==
  {Message(t, <<>>) : t \in {<<>>, ModelText}}
  \cup {Message(<<>>, cs) : cs \in CallLists(ToolNames, MaxToolCalls) \ {<<>>}}

Next ==
  \/ \E u \in UserTexts : turns < MaxTurns /\ SubmitTurn(u)
  \/ \E o \in ProviderOutcomes :
       executed + Len(o.tool_calls) <= MaxToolCalls /\ Create(o)
  \/ \E env \in ToolEnvs : Offered(env) /\ ExecuteToolCall(env)
  \/ \E o \in ProviderOutcomes :
       executed + Len(o.tool_calls) <= MaxToolCalls /\ GetNextResponse(o)
  \/ ClearChat
  \/ EnterApiKey

Spec == Init /\ [][Next]_vars

\* RetrySpec: one tool that always answers, every class of provider failure,
\* as many rounds as the provider asks for
FailureClasses == {"rate_limit", "config", "other"}
TextProducts == <<"3", "products">>
RetryToolEnvs == {ToolEnv("ok", "ok", ContentBody(<<TextProducts>>), "ok")}
RetryOutcomes ==
  {Raise(c) : c \in FailureClasses}
  \cup {Message(<<>>, <<>>), Message(ModelText, <<>>),
        Message(<<>>, <<ToolCall("list_products")>>)}

RetryNext ==
  \/ \E u \in UserTexts : turns < RetryTurns /\ SubmitTurn(u)
  \/ \E o \in RetryOutcomes : Create(o)
  \/ \E env \in RetryToolEnvs : ExecuteToolCall(env)
  \/ \E o \in RetryOutcomes : GetNextResponse(o)

RetrySpec == Init /\ [][RetryNext]_vars

\* SessionSpec: several turns of one session with the Clear Chat button; the
\* provider fails, answers, or asks for verify_customer_pin, with arguments
\* that parse or do not; the tool verifies the customer or the connection is
\* refused
BadToolCall(n) == [name |-> n, arguments |-> "{\"q\": "]
SessionToolEnvs ==
  {ToolEnv("ok", "ok", ContentBody(<<TextVerified>>), "ok"),
   ToolEnv("ok", "ConnectError", ContentBody(<<>>), "ok")}
SessionOutcomes ==
  {Raise("other"), Message(ModelText, <<>>),
   Message(<<>>, <<ToolCall("verify_customer_pin")>>),
   Message(<<>>, <<BadToolCall("verify_customer_pin")>>)}

SessionNext ==
  \/ \E u \in UserTexts : turns < SessionTurns /\ SubmitTurn(u)
  \/ \E o \in SessionOutcomes :
       executed + Len(o.tool_calls) <= SessionToolCalls /\ Create(o)
  \/ \E env \in SessionToolEnvs : ExecuteToolCall(env)
  \/ \E o \in SessionOutcomes :
       executed + Len(o.tool_calls) <= SessionToolCalls /\ GetNextResponse(o)
  \/ ClearChat
  \/ EnterApiKey
  \/ SecretRemoved

SessionSpec == Init /\ [][SessionNext]_vars

(* ------------------- the client used on its own ------------------------ *)
\* one call of MCPClient.call_tool by any caller
ClientCallTool(tool_name, env) ==
  /\ pc = "idle"
  /\ LET r == call_tool(mcp_client, tool_name, "q=1", env) IN
     /\ mcp_client' = r.client
     /\ last_call' = [op |-> "call_tool", raised |-> r.raised,
                      kind |-> r.value.kind, run_async |-> "ok"]
  /\ UNCHANGED <<history, customer_verified, customer_info, api_key, pc,
                 messages, all_tool_results, attempt, iteration,
                 assistant_message, idx, provider_calls, rounds, waits,
                 fail_log, result, turns, executed>>
  /\ UNCHANGED callers

\* one call of MCPClient.list_tools by any caller
ClientListTools(env) ==
  /\ pc = "idle"
  /\ LET r == list_tools(mcp_client, env) IN
     /\ mcp_client' = r.client
     /\ last_call' = [op |-> "list_tools", raised |-> r.raised,
                      kind |-> "none", run_async |-> "ok"]
  /\ UNCHANGED <<history, customer_verified, customer_info, api_key, pc,
                 messages, all_tool_results, attempt, iteration,
                 assistant_message, idx, provider_calls, rounds, waits,
                 fail_log, result, turns, executed>>
  /\ UNCHANGED callers

ClientEnvs ==
  {ToolEnv(f, "ok", ContentBody(<<>>), "ok") : f \in TransportFailures}
  \cup {ToolEnv("ok", f, ContentBody(<<>>), "ok") : f \in TransportFailures}
  \cup {ToolEnv("ok", "ok", b, "ok") : b \in Bodies}

ClientNext ==
  \/ \E n \in ToolNames, env \in ClientEnvs :
       mcp_client.request_id < MaxRequests /\ Offered(env)
       /\ ClientCallTool(n, env)
  \/ \E env \in ClientEnvs :
       mcp_client.request_id < MaxRequests /\ Offered(env)
       /\ ClientListTools(env)

ClientSpec == Init /\ [][ClientNext]_vars

(* ------------------- a turn run to its end ----------------------------- *)
\* FairSpec: whole turns with no budget on tool calls; every provider call
\* answers with text, with one tool call, or fails, and the tool answers.
FairToolEnvs == {ToolEnv("ok", "ok", ContentBody(<<TextDenied>>), "ok")}
FairOutcomes ==
  {Raise("other"), Message(ModelText, <<>>),
   Message(<<>>, <<ToolCall("create_order")>>)}

FairNext ==
  \/ \E u \in UserTexts : turns < FairTurns /\ SubmitTurn(u)
  \/ \E o \in FairOutcomes : Create(o)
  \/ \E env \in FairToolEnvs : ExecuteToolCall(env)
  \/ \E o \in FairOutcomes : GetNextResponse(o)

\* a pending provider call or tool call returns or fails
TurnStep ==
  \/ \E o \in FairOutcomes : Create(o)
  \/ \E env \in FairToolEnvs : ExecuteToolCall(env)
  \/ \E o \in FairOutcomes : GetNextResponse(o)

FairSpec == Init /\ [][FairNext]_vars /\ WF_vars(TurnStep)

(* ---------------- verification and the end of a turn ------------------ *)
\* VerifySpec: turns long enough to reach the cap; the provider fails,
\* answers, or asks for verify_customer_pin, which verifies or denies.
VerifyToolEnvs ==
  {ToolEnv("ok", "ok", ContentBody(<<t>>), "ok") : t \in ServerTexts}
VerifyOutcomes ==
  {Raise("other"), Message(ModelText, <<>>),
   Message(<<>>, <<ToolCall("verify_customer_pin")>>)}

VerifyNext ==
  \/ \E u \in UserTexts : turns < VerifyTurns /\ SubmitTurn(u)
  \/ \E o \in VerifyOutcomes :
       executed + Len(o.tool_calls) <= VerifyToolCalls /\ Create(o)
  \/ \E env \in VerifyToolEnvs : ExecuteToolCall(env)
  \/ \E o \in VerifyOutcomes :
       executed + Len(o.tool_calls) <= VerifyToolCalls /\ GetNextResponse(o)

VerifySpec == Init /\ [][VerifyNext]_vars

(* -------------- the client shared by concurrent callers ---------------- *)
\* Each caller runs call_tool or list_tools on the same MCPClient in a thread
\* of its own; _next_id is not guarded, so the steps of
\*   self._request_id += 1 ; return self._request_id
\* of different callers interleave.
OtherVars == <<history, customer_verified, customer_info, api_key, last_call,
               pc, messages, all_tool_results, attempt, iteration,
               assistant_message, idx, provider_calls, rounds, waits, fail_log,
               result, turns, executed>>

\* call_tool / list_tools up to the payload of the first request: the
\* handshake comes first for a client that is not marked initialized
CallerBegin(t, op, name) ==
  /\ callers[t].pc = "idle"
  /\ callers' = [callers EXCEPT ![t] =
        [pc |-> "load", op |-> op, name |-> name,
         method |-> IF mcp_client.initialized THEN op ELSE "initialize",
         tmp |-> 0, id |-> 0]]
  /\ UNCHANGED <<mcp_client, OtherVars>>

\* _next_id, self._request_id += 1: the counter is read
NextIdLoad(t) ==
  /\ callers[t].pc = "load"
  /\ callers' = [callers EXCEPT ![t].tmp = mcp_client.request_id,
                                ![t].pc = "store"]
  /\ UNCHANGED <<mcp_client, OtherVars>>

\* _next_id, self._request_id += 1: the sum is written back
NextIdStore(t) ==
  /\ callers[t].pc = "store"
  /\ mcp_client' = [mcp_client EXCEPT !.request_id = callers[t].tmp + 1]
  /\ callers' = [callers EXCEPT ![t].pc = "return"]
  /\ UNCHANGED OtherVars

\* _next_id, return self._request_id: the counter is read again
NextIdReturn(t) ==
  /\ callers[t].pc = "return"
  /\ callers' = [callers EXCEPT ![t].id = mcp_client.request_id,
                                ![t].pc = "post"]
  /\ UNCHANGED <<mcp_client, OtherVars>>

\* _send_request, the post of the payload, and what the caller does with the
\* answer: initialize sets _initialized and the caller goes on to its own
\* request; an exception ends the call
SendRequestPost(t, status) ==
  /\ callers[t].pc = "post"
  /\ LET c == callers[t]
         handshake == c.method = "initialize" /\ status = "ok"
     IN
     /\ mcp_client' = [mcp_client EXCEPT
           !.sent = Append(@, [method |-> c.method,
                               name |-> IF c.method = "tools/call"
                                          THEN c.name ELSE "-",
                               arguments |-> IF c.method = "tools/call"
                                               THEN "q=1" ELSE "-",
                               id |-> c.id, status |-> status]),
           !.initialized = IF handshake THEN TRUE ELSE @]
     /\ callers' = [callers EXCEPT ![t] =
           IF handshake
             THEN [c EXCEPT !.method = c.op, !.pc = "load"]
             ELSE IdleCaller]
  /\ UNCHANGED OtherVars

ConcStatuses == {"ok", "ConnectError"}

\* callers inside the client
InFlight == Cardinality({t \in Callers : callers[t].pc # "idle"})

ConcNext ==
  \/ \E t \in Callers, n \in ToolNames :
       Len(mcp_client.sent) + InFlight < ConcRequests
       /\ CallerBegin(t, "tools/call", n)
  \/ \E t \in Callers :
       Len(mcp_client.sent) + InFlight < ConcRequests
       /\ CallerBegin(t, "tools/list", "-")
  \/ \E t \in Callers : NextIdLoad(t)
  \/ \E t \in Callers : NextIdStore(t)
  \/ \E t \in Callers : NextIdReturn(t)
  \/ \E t \in Callers, status \in ConcStatuses : SendRequestPost(t, status)

ConcSpec == Init /\ [][ConcNext]_vars

(* ------------------------------ claims --------------------------------- *)
TurnEnded == pc = "idle" /\ turns > 0
Sent == mcp_client.sent
Initializes == {i \in DOMAIN Sent : Sent[i].method = "initialize"}

\* every provider call of the turn failed, each with an exception of class c
AllFailedWith(c) ==
  /\ provider_calls > 0
  /\ Len(fail_log) = provider_calls
  /\ \A i \in DOMAIN fail_log : fail_log[i] = c

\* the messages section 4.4 of the specification speaks of; the code has none
RateLimitMessage == <<"rate-limit message">>
ConfigurationErrorMessage == <<"configuration-error message">>

\* C1: in one user turn at most 5 rounds of tools are executed, the rounds of
\* every retry attempt of the turn counted together.
C1_RoundCapPerTurn == rounds <= 5

\* C2: processing a tool outcome sets verified and stores the result as the
\* customer record exactly when the tool is verify_customer_pin and the result
\* contains "Customer ID:"; any other outcome leaves both fields as they were.
C2_VerificationRule ==
  [][Len(all_tool_results') = Len(all_tool_results) + 1 =>
       LET tr == Last(all_tool_results') IN
       IF tr.tool = "verify_customer_pin" /\ Contains(tr.result, Marker)
         THEN customer_verified' = TRUE /\ customer_info' = tr.result
         ELSE customer_verified' = customer_verified
              /\ customer_info' = customer_info]_vars

\* a failed verification processed after a successful one: still verified
C2_Witness ==
  /\ Len(all_tool_results) = 2
  /\ all_tool_results[1].tool = "verify_customer_pin"
  /\ all_tool_results[1].result = TextVerified
  /\ all_tool_results[2].tool = "verify_customer_pin"
  /\ ~Contains(all_tool_results[2].result, Marker)
  /\ customer_verified
  /\ customer_info = TextVerified

\* C3: when every provider call of a turn fails with a rate-limit error, the
\* turn makes exactly 3 provider attempts, waits 1 and then 2 time units, and
\* returns the fixed rate-limit message.
C3_RateLimitBackoff ==
  (TurnEnded /\ AllFailedWith("rate_limit")) =>
     /\ provider_calls = 3
     /\ waits = <<1, 2>>
     /\ result = RateLimitMessage

\* C4: a provider call that fails with a configuration class error ends the
\* turn at once: one attempt, no wait, no retry, the fixed configuration-error
\* message.
C4_ConfigurationFailsAtOnce ==
  (fail_log # <<>> /\ fail_log[1] = "config") =>
     /\ TurnEnded
     /\ attempt = 0
     /\ Len(fail_log) = 1
     /\ waits = <<>>
     /\ result = ConfigurationErrorMessage

\* C5: a provider failure of any other class is retried exactly once after a
\* wait of 1 time unit; when the retry fails too the generic error message
\* with the underlying text is returned (at most 2 attempts).
C5_OtherRetriedOnce ==
  /\ (fail_log # <<>> /\ \A i \in DOMAIN fail_log : fail_log[i] = "other") =>
        /\ Len(fail_log) <= 2
        /\ \A i \in DOMAIN waits : waits[i] = 1
  /\ (TurnEnded /\ AllFailedWith("other")) =>
        /\ provider_calls = 2
        /\ result = ErrorMessage("other")

\* C6: the i-th request one client sends carries id i, whatever the method and
\* whether or not the send fails at the transport.
C6_RequestIds == \A i \in DOMAIN Sent : Sent[i].id = i

\* four requests, of all three methods, among them a send that failed
C6_Witness ==
  /\ Len(Sent) >= 4
  /\ \E i \in DOMAIN Sent : Sent[i].status # "ok"
  /\ \E i \in DOMAIN Sent : Sent[i].method = "tools/call"
  /\ \E i \in DOMAIN Sent : Sent[i].method = "tools/list"
  /\ \E i \in DOMAIN Sent : i > 1 /\ Sent[i].method = "initialize"

\* C7, as stated: the initialize request is sent at most once in the lifetime
\* of a client, also when an initialize request fails at the transport.
C7_InitializeAtMostOnce == Cardinality(Initializes) <= 1

\* C7, amended: no initialize request is sent after one that completed without
\* a transport failure (so at most one completes); a failed one is sent again
\* by the next call.
C7_NoInitializeAfterSuccess ==
  \A i \in Initializes : \A j \in Initializes :
     i < j => Sent[i].status # "ok"

\* a failed handshake, a second one that succeeds, then calls without any
C7_Witness ==
  /\ Len(Sent) = 4
  /\ Sent[1].method = "initialize" /\ Sent[1].status # "ok"
  /\ Sent[2].method = "initialize" /\ Sent[2].status = "ok"
  /\ Sent[3].method = "tools/call"
  /\ Sent[4].method = "tools/list"

\* C8: every tools/call and tools/list request follows an initialize request
\* that completed without a transport failure; a call whose handshake fails
\* sends nothing else and ends in that transport failure.
C8_HandshakeFirst ==
  /\ [](\A i \in DOMAIN Sent :
          Sent[i].method \in {"tools/call", "tools/list"} =>
            \E j \in 1..(i - 1) :
               Sent[j].method = "initialize" /\ Sent[j].status = "ok")
  /\ [][(/\ Len(mcp_client'.sent) > Len(Sent)
         /\ mcp_client'.sent[Len(Sent) + 1].method = "initialize"
         /\ mcp_client'.sent[Len(Sent) + 1].status # "ok") =>
          /\ Len(mcp_client'.sent) = Len(Sent) + 1
          /\ last_call'.raised = mcp_client'.sent[Len(Sent) + 1].status
          /\ ~mcp_client'.initialized]_vars

\* a call that ended in its failed handshake, on a client that sent nothing else
C8_Witness ==
  /\ Len(Sent) = 1
  /\ Sent[1].method = "initialize"
  /\ Sent[1].status = "TimeoutException"
  /\ last_call.op = "list_tools"
  /\ last_call.raised = "TimeoutException"

\* C9: when the answer to the first provider call of a turn has no tool calls
\* and a non-empty text, the turn ends there: one provider call, no tool
\* executed, and the text returned is exactly the model's.
C9_PlainAnswer ==
  [][(/\ pc = "create"
      /\ provider_calls = 0
      /\ provider_calls' = 1
      /\ fail_log' = <<>>
      /\ assistant_message'.tool_calls = <<>>
      /\ assistant_message'.content # <<>>) =>
       /\ pc' = "idle"
       /\ result' = assistant_message'.content
       /\ history' = Append(history, Turn("assistant", assistant_message'.content))
       /\ all_tool_results' = <<>>
       /\ rounds' = 0
       /\ mcp_client' = mcp_client]_vars

C9_Witness ==
  /\ TurnEnded
  /\ provider_calls = 1
  /\ fail_log = <<>>
  /\ assistant_message = [content |-> ModelText, tool_calls |-> <<>>]
  /\ result = ModelText
  /\ all_tool_results = <<>>

\* C10: whatever a tool invocation meets (connection refused, timeout, non-2xx
\* status, failed handshake, RPC error object, a failure of run_async), the
\* outcome is a string, "Error: <message>" for an RPC error, appended as the
\* tool result of that call, and the turn goes on with the next tool call or
\* the next provider call: no retry, no error return.
C10_ToolFailuresContained ==
  [][pc = "tools" =>
       LET tool_call == assistant_message.tool_calls[idx] IN
       /\ Len(all_tool_results') = Len(all_tool_results) + 1
       /\ messages' = Append(messages,
                        Msg("tool", Last(all_tool_results').result, <<>>,
                            tool_call.id))
       /\ (last_call'.kind = "error" /\ last_call'.run_async = "ok") =>
             \E m \in RpcMessages :
                Last(all_tool_results').result = <<"Error:">> \o m
       /\ fail_log' = fail_log
       /\ attempt' = attempt
       /\ IF idx < Len(assistant_message.tool_calls)
            THEN pc' = "tools" /\ idx' = idx + 1
            ELSE pc' = "next"]_vars

\* a refused connection and an RPC error in one round, the round completed
C10_Witness ==
  /\ pc = "next"
  /\ Len(all_tool_results) = 2
  /\ all_tool_results[1].result =
       <<"Connection error: Could not connect to MCP server.">>
  /\ all_tool_results[2].result = <<"Error:", "Invalid", "params">>
  /\ Len(messages) >= 2
  /\ Last(messages).role = "tool"
  /\ Last(messages).content = <<"Error:", "Invalid", "params">>

\* C11: whatever fails in a turn (provider calls, tool calls, arguments that
\* do not parse), the turn ends by returning a text, which the handler stores
\* as the assistant's turn; no step leaves the turn stuck, and once a turn has
\* ended the next user turn is accepted.
C11_TurnsReturnText ==
  /\ [](pc \in {"idle", "create", "tools", "next"})
  /\ [](pc # "idle" => ENABLED SessionNext)
  /\ [](pc = "idle" => \A u \in UserTexts : ENABLED SubmitTurn(u))
  /\ [][((turns' # turns \/ pc # "idle") /\ pc' = "idle") =>
          /\ result' # <<>>
          /\ history' # <<>>
          /\ Last(history') = Turn("assistant", result')]_vars

\* a turn that ended in the error message after three provider failures, and
\* after it a turn with a malformed tool call and a refused connection that
\* ended with the model's text
C11_Witness ==
  /\ TurnEnded
  /\ turns = 2
  /\ Len(history) = 4
  /\ history[2] = Turn("assistant", ErrorMessage("other"))
  /\ fail_log = <<>>
  /\ Len(all_tool_results) = 1
  /\ all_tool_results[1].arguments = "{}"
  /\ all_tool_results[1].result =
       <<"Connection error: Could not connect to MCP server.">>
  /\ history[4] = Turn("assistant", result)
  /\ Len(result) >= Len(ModelText)
  /\ SubSeq(result, 1, Len(ModelText)) = ModelText

\* C12: a tool call whose arguments cannot be parsed is executed with the
\* empty mapping: the named tool is called with {}, the outcome is recorded as
\* the result of that call, and the turn goes on as for any other call,
\* without abort and without provider retry.
C12_MalformedArguments ==
  [][(/\ pc = "tools"
      /\ assistant_message.tool_calls[idx].arguments
           = BadToolCall("-").arguments) =>
       LET tool_call == assistant_message.tool_calls[idx]
           sent_now == mcp_client'.sent
       IN
       /\ Len(all_tool_results') = Len(all_tool_results) + 1
       /\ Last(all_tool_results').tool = tool_call.name
       /\ Last(all_tool_results').arguments = "{}"
       /\ Len(sent_now) > Len(Sent)
       /\ Last(sent_now).method = "tools/call"
       /\ Last(sent_now).name = tool_call.name
       /\ Last(sent_now).arguments = "{}"
       /\ messages' = Append(messages,
                        Msg("tool", Last(all_tool_results').result, <<>>,
                            tool_call.id))
       /\ fail_log' = fail_log
       /\ attempt' = attempt
       /\ provider_calls' = provider_calls
       /\ pc' \in {"tools", "next"}]_vars

\* a malformed verify_customer_pin call that was executed and verified
C12_Witness ==
  /\ pc = "next"
  /\ assistant_message.tool_calls[1].arguments = BadToolCall("-").arguments
  /\ Len(all_tool_results) = 1
  /\ all_tool_results[1] = [tool |-> "verify_customer_pin",
                            arguments |-> "{}", result |-> TextVerified]
  /\ Last(Sent).arguments = "{}"
  /\ Last(Sent).status = "ok"
  /\ customer_verified

\* C13: the first message list dispatched for a turn is the system prompt,
\* then the last 6 turns of the history that preceded the turn (all of them
\* when fewer), then the new user message, once.
C13_FirstMessageList ==
  [][(pc = "idle" /\ pc' = "create") =>
       LET user_message == Last(history').content
           before == LastTurns(history)
       IN
       messages' =
         <<Msg("system", get_system_prompt(customer_verified, customer_info),
               <<>>, <<>>)>>
         \o [i \in 1..Len(before) |->
               Msg(before[i].role, before[i].content, <<>>, <<>>)]
         \o <<Msg("user", user_message, <<>>, <<>>)>>]_vars

VerifiedBlock(info) ==
  <<"VERIFIED CUSTOMER CONTEXT:">> \o info
  \o <<"The customer has been verified and can place orders.">>

\* C14: the system prompt built for a turn holds the verified-customer block,
\* with the stored customer record verbatim, exactly when the session is
\* verified at that moment.
C14_PromptContext ==
  [][(pc = "idle" /\ pc' = "create") =>
       LET prompt == messages'[1].content IN
       /\ messages'[1].role = "system"
       /\ customer_verified =>
            Contains(prompt, VerifiedBlock(customer_info))
       /\ ~customer_verified =>
            ~Contains(prompt, <<"VERIFIED CUSTOMER CONTEXT:">>)]_vars

\* the prompt of the turn after the one that verified the customer
C14_Witness ==
  /\ pc = "create"
  /\ turns = 2
  /\ customer_verified
  /\ customer_info = TextVerified
  /\ Contains(messages[1].content, VerifiedBlock(TextVerified))

\* C15: the session leaves the verified state only by the clear action, which
\* resets history, flag and record in one step; the history is never empty
\* while the session is verified, and the record is never kept without the flag.
C15_ClearIsAtomic ==
  /\ [][(customer_verified /\ ~customer_verified') =>
          /\ pc = "idle"
          /\ history' = <<>>
          /\ customer_info' = None]_vars
  /\ [][(history # <<>> /\ history' = <<>>) =>
          /\ ~customer_verified'
          /\ customer_info' = None]_vars
  /\ [](customer_verified => history # <<>>)
  /\ [](~customer_verified => customer_info = None)

\* a session cleared after the customer had been verified
C15_Witness ==
  /\ pc = "idle"
  /\ turns >= 1
  /\ \E i \in DOMAIN all_tool_results :
        all_tool_results[i].result = TextVerified
  /\ history = <<>>
  /\ ~customer_verified
  /\ customer_info = None

\* C16: a create_order call requested while the session is not verified is
\* sent to the server like any other call (after the handshake when that is
\* still due), and what the bridge makes of the server's answer is the result.
C16_NoVerificationGate ==
  [][(/\ pc = "tools"
      /\ assistant_message.tool_calls[idx].name = "create_order"
      /\ ~customer_verified) =>
       LET tool_call == assistant_message.tool_calls[idx]
           s == mcp_client'.sent
       IN
       /\ Len(s) > Len(Sent)
       /\ \/ /\ Last(s).method = "tools/call"
             /\ Last(s).name = "create_order"
             /\ Last(s).arguments = ParseArguments(tool_call.arguments)
          \/ /\ Last(s).method = "initialize"
             /\ Last(s).status # "ok"
       /\ all_tool_results' # all_tool_results
       /\ Last(all_tool_results').tool = "create_order"
       /\ ~customer_verified']_vars

\* an order placed and answered by the server in an unverified session
C16_Witness ==
  /\ ~customer_verified
  /\ Sent # <<>>
  /\ Last(Sent).method = "tools/call"
  /\ Last(Sent).name = "create_order"
  /\ Last(Sent).status = "ok"
  /\ all_tool_results # <<>>
  /\ Last(all_tool_results).tool = "create_order"
  /\ Last(all_tool_results).result \in ServerTexts

\* the calls of the current round that have finished
Finished ==
  IF pc = "tools" THEN idx - 1
  ELSE IF pc = "next" THEN Len(assistant_message.tool_calls)
  ELSE 0

\* C17: within a round the calls run one at a time in the listed order: when k
\* calls have finished, the message list ends with the assistant message of the
\* round followed by exactly k tool messages, keyed to the ids of the first k
\* calls in order and holding their results, and the verification effect of
\* each of them has already taken place; every pass adds one such message, and
\* the provider is called again only when all calls have finished.
C17_SequentialRound ==
  /\ [](pc \in {"tools", "next"} =>
         LET calls == assistant_message.tool_calls
             k == Finished
             base == Len(messages) - k
             r0 == Len(all_tool_results) - k
         IN
         /\ calls # <<>>
         /\ base >= 1 /\ r0 >= 0
         /\ pc = "tools" => idx \in 1..Len(calls)
         /\ messages[base] = Msg("assistant", assistant_message.content,
                                 calls, <<>>)
         /\ \A i \in 1..k :
              /\ messages[base + i].role = "tool"
              /\ messages[base + i].tool_call_id = calls[i].id
              /\ messages[base + i].content = all_tool_results[r0 + i].result
              /\ all_tool_results[r0 + i].tool = calls[i].name
              /\ IsVerification(calls[i].name, all_tool_results[r0 + i].result)
                   => customer_verified
         /\ \A i, j \in 1..Len(calls) : i # j => calls[i].id # calls[j].id)
  /\ [][pc = "tools" =>
          /\ Len(messages') = Len(messages) + 1
          /\ Last(messages').tool_call_id = assistant_message.tool_calls[idx].id
          /\ provider_calls' = provider_calls
          /\ \/ pc' = "tools" /\ idx' = idx + 1
             \/ pc' = "next" /\ idx = Len(assistant_message.tool_calls)]_vars
  /\ [][provider_calls' = provider_calls + 1 => pc \in {"create", "next"}]_vars

\* verify_customer_pin then create_order in one round, both finished: the
\* verification took effect before create_order ran
C17_Witness ==
  /\ pc = "next"
  /\ Len(assistant_message.tool_calls) = 2
  /\ assistant_message.tool_calls[1].name = "verify_customer_pin"
  /\ assistant_message.tool_calls[2].name = "create_order"
  /\ customer_verified
  /\ Len(messages) >= 3
  /\ messages[Len(messages) - 1].tool_call_id = assistant_message.tool_calls[1].id
  /\ messages[Len(messages)].tool_call_id = assistant_message.tool_calls[2].id
  /\ messages[Len(messages) - 1].content = TextVerified

\* C18: a turn submitted while no API key is available returns the fixed
\* configuration message at once: no provider call, no tool call, no request
\* on the wire; the verification flag and record, the client's counter and
\* initialized flag, and the message list and tool results of the last turn
\* stay as they were; the history receives only what the handler appends for
\* every turn, the user's message and the returned text.
C18_NoKeyTurn ==
  [][(pc = "idle" /\ api_key = "" /\ turns' = turns + 1) =>
       /\ result' = ApiKeyMessage
       /\ pc' = "idle"
       /\ provider_calls' = 0
       /\ executed' = executed
       /\ mcp_client' = mcp_client
       /\ last_call' = last_call
       /\ customer_verified' = customer_verified
       /\ customer_info' = customer_info
       /\ messages' = messages
       /\ all_tool_results' = all_tool_results
       /\ \E u \in UserTexts :
            history' = history \o <<Turn("user", u),
                                    Turn("assistant", ApiKeyMessage)>>]_vars

\* a turn without a key in a session that is verified and whose client has
\* already shaken hands
C18_Witness ==
  /\ pc = "idle"
  /\ api_key = ""
  /\ turns = 2
  /\ result = ApiKeyMessage
  /\ provider_calls = 0
  /\ customer_verified
  /\ customer_info = TextVerified
  /\ mcp_client.initialized
  /\ mcp_client.request_id = 2

\* C19: when two callers overlap on one MCPClient, interleaved at any step of
\* the id generation, no two requests are sent with the same id.
C19_ConcurrentIdsDistinct ==
  \A i, j \in DOMAIN Sent : i # j => Sent[i].id # Sent[j].id

\* C20: provided every pending provider call and tool call returns or fails,
\* every turn ends with a returned text; a turn makes at most max_retries
\* attempts, and an attempt one first dispatch and at most max_iterations
\* re-dispatches, so at most max_retries * (1 + max_iterations) provider calls.
C20_TurnTerminates ==
  /\ [](attempt < max_retries)
  /\ [](iteration <= max_iterations)
  /\ [](provider_calls <= max_retries * (1 + max_iterations))
  /\ [](provider_calls <= (attempt + 1) * (1 + max_iterations))
  /\ (pc # "idle") ~> (pc = "idle" /\ result # <<>>)

\* a turn that used the whole budget: three attempts of six provider calls
C20_Witness ==
  /\ TurnEnded
  /\ provider_calls = max_retries * (1 + max_iterations)
  /\ Len(fail_log) = max_retries
  /\ result = ErrorMessage("other")

\* the tool calls of the assistant messages of a message list, in order
RECURSIVE CallsOf(_)
CallsOf(ms) ==
  IF ms = <<>> THEN <<>>
  ELSE (IF ms[1].role = "assistant" THEN ms[1].tool_calls ELSE <<>>)
       \o CallsOf(Tail(ms))

\* the tool messages of a message list, in order
RECURSIVE ToolMessages(_)
ToolMessages(ms) ==
  IF ms = <<>> THEN <<>>
  ELSE (IF ms[1].role = "tool" THEN <<ms[1]>> ELSE <<>>)
       \o ToolMessages(Tail(ms))

\* one appendix line per executed call: its name and the preview of its result
RECURSIVE AppendixLines(_, _)
AppendixLines(calls, tms) ==
  IF calls = <<>> \/ tms = <<>> THEN <<>>
  ELSE <<"-", calls[1].name, "->">> \o Preview(tms[1].content)
       \o AppendixLines(Tail(calls), Tail(tms))

\* a step in which the turn returns from line 431 (no exception in the step)
ReturnsAnswer ==
  /\ pc \in {"create", "next"}
  /\ pc' = "idle"
  /\ fail_log' = fail_log

\* C21: a turn that completes returns the model's last content, or the apology
\* when that is empty (also when the cap is hit with calls pending), followed
\* by the appendix exactly when a tool ran in the turn; the appendix has one
\* line per tool executed in the turn, in execution order, the tools of
\* attempts that failed and were retried included.
C21_ReturnedText ==
  [][ReturnsAnswer =>
       LET text == IF assistant_message'.content # <<>>
                     THEN assistant_message'.content ELSE Apology
           calls == CallsOf(messages)
           tms == ToolMessages(messages)
       IN
       /\ Len(calls) = Len(tms)
       /\ \A i \in 1..Len(tms) : tms[i].tool_call_id = calls[i].id
       /\ result' = text \o (IF tms # <<>>
                               THEN <<"Tools used:">> \o AppendixLines(calls, tms)
                               ELSE <<>>)]_vars

\* a turn whose first attempt ran a tool and then failed, and whose second
\* attempt hit the cap with a call pending: apology and six tools
C21_Witness ==
  /\ TurnEnded
  /\ Len(fail_log) = 1
  /\ assistant_message.tool_calls # <<>>
  /\ assistant_message.content = <<>>
  /\ iteration = max_iterations
  /\ Len(all_tool_results) = 1 + max_iterations
  /\ Len(result) > Len(Apology)
  /\ SubSeq(result, 1, Len(Apology)) = Apology
  /\ result[Len(Apology) + 1] = "Tools used:"

\* C22: when calls overlap on a client that is not yet initialized, and no
\* handshake fails, the initialize request is sent only once.
C22_OverlapHandshakeOnce ==
  (\A i \in Initializes : Sent[i].status = "ok")
    => Cardinality(Initializes) <= 1

\* C23: in every state the session is verified exactly when a customer record
\* is present, and the record then contains "Customer ID:"; the two fields
\* start false/absent and never change one without the other.
C23_FlagAndRecord ==
  /\ [](customer_verified <=> customer_info # None)
  /\ [](customer_verified => Contains(customer_info, Marker))
  /\ [][customer_verified' # customer_verified
          => customer_info' # customer_info]_vars
  /\ [][(customer_info' # customer_info /\ customer_info' # None)
          => /\ pc = "tools"
             /\ customer_verified'
             /\ Last(all_tool_results').tool = "verify_customer_pin"
             /\ Last(all_tool_results').result = customer_info']_vars

\* verified in the first turn, cleared, and verified again in the second
C23_Witness ==
  /\ turns = 2
  /\ Len(history) = 1
  /\ customer_verified
  /\ customer_info = TextVerified
  /\ mcp_client.request_id = 3

\* the calls of the current round that are still to run
Pending ==
  IF pc = "tools" THEN Len(assistant_message.tool_calls) - idx + 1 ELSE 0

\* C24: every tool call of a response the orchestrator has taken up is handed
\* to the bridge exactly once in the turn: the tool results of the turn answer
\* the calls one for one, in order, no call id twice; a provider failure keeps
\* the messages and results gathered so far for the retry, and nothing already
\* run is run again.
C24_ExecutedOnce ==
  /\ [](LET calls == CallsOf(messages)
            tms == ToolMessages(messages)
        IN
        /\ Len(tms) + Pending = Len(calls)
        /\ Len(tms) = Len(all_tool_results)
        /\ \A i \in 1..Len(tms) :
             /\ tms[i].tool_call_id = calls[i].id
             /\ all_tool_results[i].tool = calls[i].name
             /\ all_tool_results[i].result = tms[i].content
        /\ \A i, j \in 1..Len(calls) : i # j => calls[i].id # calls[j].id)
  /\ [][(pc # "idle" /\ fail_log' # fail_log /\ pc' = "create") =>
          /\ messages' = messages
          /\ all_tool_results' = all_tool_results
          /\ mcp_client' = mcp_client]_vars
  /\ [][(pc # "idle" /\ pc' # "idle") =>
          /\ Len(messages') >= Len(messages)
          /\ SubSeq(messages', 1, Len(messages)) = messages]_vars

\* a tool ran, the re-dispatch failed, and the retry asked for a tool again:
\* two calls, two results, in a turn that ended with the model's text
C24_Witness ==
  /\ TurnEnded
  /\ Len(fail_log) = 1
  /\ provider_calls = 4
  /\ Len(CallsOf(messages)) = 2
  /\ CallsOf(messages)[1].id = <<1, 1>>
  /\ CallsOf(messages)[2].id = <<3, 1>>
  /\ Len(ToolMessages(messages)) = 2
  /\ result # ErrorMessage(fail_log[1])

\* the tool results of the turn that count as a verification
Verifications(trs) ==
  {i \in DOMAIN trs :
     trs[i].tool = "verify_customer_pin" /\ Contains(trs[i].result, Marker)}

\* the largest element of a non-empty set of numbers
Max(S) == CHOOSE x \in S : \A y \in S : y <= x

\* C25: once a verify_customer_pin outcome with the marker has been processed
\* in a turn, the session is verified and the record is the latest such result
\* through the rest of the turn and when the turn returns, however it ends:
\* with the model's text, at the cap, or with the error message after the
\* retries are used up.
C25_VerificationKept ==
  /\ [](pc # "idle" /\ Verifications(all_tool_results) # {} =>
          /\ customer_verified
          /\ customer_info =
               all_tool_results[Max(Verifications(all_tool_results))].result)
  /\ [][(pc # "idle" /\ pc' = "idle"
         /\ Verifications(all_tool_results') # {}) =>
          /\ customer_verified'
          /\ customer_info' =
               all_tool_results'[Max(Verifications(all_tool_results'))].result]_vars

\* verified in the first attempt, then three provider failures: the turn
\* returned the error message and the session is verified
C25_Witness ==
  /\ TurnEnded
  /\ Len(fail_log) = max_retries
  /\ result = ErrorMessage("other")
  /\ Verifications(all_tool_results) # {}
  /\ customer_verified
  /\ customer_info = TextVerified

\* verified in the first round, denied later, ended at the cap with a call
\* pending: the session is verified
C25_AtCap ==
  /\ TurnEnded
  /\ iteration = max_iterations
  /\ assistant_message.tool_calls # <<>>
  /\ all_tool_results # <<>>
  /\ all_tool_results[1].result = TextVerified
  /\ Last(all_tool_results).result = TextDenied
  /\ customer_verified
  /\ customer_info = TextVerified

\* C26: the system prompt is the one computed when the turn starts: it is the
\* first message of the list, the only system message, and no step of the turn
\* changes it, so every re-dispatch and every retry sends it as it was, also
\* after a verification in the turn.
C26_PromptFixedInTurn ==
  /\ [][(pc = "idle" /\ pc' = "create") =>
          messages'[1] =
            Msg("system", get_system_prompt(customer_verified, customer_info),
                <<>>, <<>>)]_vars
  /\ [][pc # "idle" =>
          /\ messages' # <<>>
          /\ messages'[1] = messages[1]]_vars
  /\ [](\A i \in 2..Len(messages) : messages[i].role # "system")

\* a retry about to be dispatched in a session verified earlier in the same
\* turn: the prompt has no verified-customer block
C26_Witness ==
  /\ pc = "create"
  /\ attempt > 0
  /\ customer_verified
  /\ Verifications(all_tool_results) # {}
  /\ messages[1].role = "system"
  /\ ~Contains(messages[1].content, <<"VERIFIED CUSTOMER CONTEXT:">>)

====
